---- MODULE Spec2Model ----
(***************************************************************************)
(* Model of tabgen.cpp: GF(256) table generation, Cauchy matrix            *)
(* construction with per-row pivot rescaling, the greedy solver            *)
(* SolveBestMatrix, the random search Explore with ShuffleDeck8, and       *)
(* SortColumns.                                                            *)
(***************************************************************************)
EXTENDS Integers, Sequences, FiniteSets, TLC

VARIABLES
    pc,         \* position of the program
    polyIdx,    \* ii passed to GenerateExpLogTables
    LogTable,   \* u16 LogTable[256] being filled by GenerateExpLogTables
    ALogTable,  \* u8 ALogTable[512*2+1] being filled by GenerateExpLogTables
    query,      \* operands and results of the last table lookups
    k, m,       \* matrix dimensions (columns, rows)
    X, Y,       \* the two vectors of field values
    matrix,     \* u8 matrix[k*m], row-major, 0-based
    raw,        \* copy of matrix after the first pass of GenerateCauchyMatrix
    ones,       \* value returned by GenerateCauchyMatrix
    zeroDiv,    \* TRUE once a zero divisor or INV[0] has been used
    seen,       \* u8 seen[256] of SolveBestMatrix
    A, F,       \* seed of SolveBestMatrix
    sy, sx,     \* loop counters y and x of SolveBestMatrix / SortColumns
    unassigned, \* TRUE once a row scan of SolveBestMatrix ended without break
    XY,         \* the deck of Explore
    sii,        \* loop counter ii of ShuffleDeck8
    least,      \* best score of Explore
    best,       \* best matrix of Explore
    iter,       \* loop counter ii of Explore
    history,    \* every <<ones, matrix>> GenerateCauchyMatrix returned in Explore
    counts,     \* int counts[k] of SortColumns
    matrix0     \* the matrix SortColumns was called with

vars == <<pc, polyIdx, LogTable, ALogTable, query, k, m, X, Y, matrix, raw,
          ones, zeroDiv, seen, A, F, sy, sx, unassigned, XY, sii, least,
          best, iter, history, counts, matrix0>>

-----------------------------------------------------------------------------
(* Bit operations on unsigned integers *)

RECURSIVE Xor(_, _)
Xor(a, b) ==
    IF a = 0 THEN b
    ELSE IF b = 0 THEN a
    ELSE (((a % 2) + (b % 2)) % 2) + 2 * Xor(a \div 2, b \div 2)

RECURSIVE PopCount(_)
PopCount(n) == IF n = 0 THEN 0 ELSE (n % 2) + PopCount(n \div 2)

\* C arrays are kept as sequences: element i of the array is arr[i + 1]
Array(f, n) == [i \in 1..n |-> f[i - 1]] \o << >>

At(arr, i) == arr[i + 1]

Put(arr, i, v) == [arr EXCEPT ![i + 1] = v]

\* BitMath.hpp: number of set bits of a byte
BIT_COUNT_TABLE == Array([n \in 0..255 |-> PopCount(n)], 256)

U8(n) == n % 256

INT_MAX == 2147483647

-----------------------------------------------------------------------------
(* Field tables *)

GEN_POLY ==
    << 142, 149, 150, 166, 175, 177, 178, 180,
       184, 195, 198, 212, 225, 231, 243, 250 >>

FAVORITE_POLY == 9

\* static arrays start zeroed
ZeroTables ==
    [ LogTable  |-> Array([v \in 0..255 |-> 0], 256),
      ALogTable |-> Array([j \in 0..1024 |-> 0], 1025) ]

\* GenStep reducing only above 256
GenStep_LateReduce(T, jj, poly) ==
    LET next == At(T.ALogTable, jj - 1) * 2
        v    == U8(IF next > 256 THEN Xor(next, poly) ELSE next)
    IN  [ LogTable  |-> Put(T.LogTable, v, jj),
          ALogTable |-> Put(T.ALogTable, jj, v) ]

\* body of the first loop of GenerateExpLogTables
GenStep(T, jj, poly) ==
    LET next == At(T.ALogTable, jj - 1) * 2
        v    == U8(IF next >= 256 THEN Xor(next, poly) ELSE next)
    IN  [ LogTable  |-> Put(T.LogTable, v, jj),
          ALogTable |-> Put(T.ALogTable, jj, v) ]

\* the loop body for jj = lo .. hi, in ascending order (the first half is
\* evaluated before the second half is entered)
RECURSIVE GenLoop(_, _, _, _)
GenLoop(T, lo, hi, poly) ==
    IF lo > hi THEN T
    ELSE IF lo = hi THEN GenStep(T, lo, poly)
    ELSE LET mid  == (lo + hi) \div 2
             left == GenLoop(T, lo, mid, poly)
         IN  IF Len(left.ALogTable) > 0
             THEN GenLoop(left, mid + 1, hi, poly)
             ELSE left

\* lines 93 - 95: LogTable[0] = 512; ALogTable[0] = 1;
GenStart(T) ==
    [ LogTable  |-> Put(T.LogTable, 0, 512),
      ALogTable |-> Put(T.ALogTable, 0, 1) ]

\* lines 108 - 119 on the antilog table E: the copies at 256 .. 509, the 1 at
\* 510 and the zeros at 511 .. 1019
GenExtend(E) ==
    Array([j \in 0..1024 |->
             IF j >= 256 /\ j < 2 * 255 THEN At(E, j % 255)
             ELSE IF j = 2 * 255 THEN 1
             ELSE IF j >= 2 * 255 + 1 /\ j < 4 * 255 THEN 0
             ELSE At(E, j)], 1025)

\* lines 105 - 119: ALogTable[255] = ALogTable[0]; LogTable[ALogTable[255]] = 255;
\* and the extension of the antilog table
GenFinish(T) ==
    [ LogTable  |-> Put(T.LogTable, At(T.ALogTable, 0), 255),
      ALogTable |-> GenExtend(Put(T.ALogTable, 255, At(T.ALogTable, 0))) ]

GenerateExpLogTables(ii, T) ==
    GenFinish(GenLoop(GenStart(T), 1, 254, At(GEN_POLY, ii) * 2 + 1))

\* tables as main() leaves them
FavoriteTables == GenerateExpLogTables(FAVORITE_POLY, ZeroTables)

GF256_LOG_TABLE == FavoriteTables.LogTable

GF256_EXP_TABLE == FavoriteTables.ALogTable

\* GF256_MUL_TABLE[(y << 8) + x] from the tables L, E
MulEntry(L, E, x, y) ==
    IF y = 0 \/ x = 0 THEN 0
    ELSE At(E, At(L, x) + U8(At(L, y)))

\* DivEntry with 254 - log(y)
DivEntry_WrongInverse(L, E, x, y) ==
    IF y = 0 \/ x = 0 THEN 0
    ELSE At(E, At(L, x) + U8(254 - U8(At(L, y))))

\* GF256_DIV_TABLE[(y << 8) + x] from the tables L, E: u8 log_y, then
\* log_yn = 255 - log_y
DivEntry(L, E, x, y) ==
    IF y = 0 \/ x = 0 THEN 0
    ELSE At(E, At(L, x) + U8(255 - U8(At(L, y))))

MulDivTables(L, E) ==
    [ mul |-> Array([i \in 0..65535 |-> MulEntry(L, E, i % 256, i \div 256)], 65536),
      div |-> Array([i \in 0..65535 |-> DivEntry(L, E, i % 256, i \div 256)], 65536) ]

\* the two tables InitMulDivTables fills, entry (y << 8) + x
InitMulDivTables == MulDivTables(GF256_LOG_TABLE, GF256_EXP_TABLE)

GF256_MUL_TABLE == InitMulDivTables.mul

GF256_DIV_TABLE == InitMulDivTables.div

GF256Multiply(x, y) == At(GF256_MUL_TABLE, y * 256 + x)

GF256Divide(x, y) == At(GF256_DIV_TABLE, y * 256 + x)

\* InitInvTable
GF256_INV_TABLE == Array([x \in 0..255 |-> GF256Divide(1, x)], 256)

\* the loop of cauchy_ones entered with w, n and the ones counted so far
RECURSIVE cauchy_ones_loop(_, _, _)

\* ones += BIT_COUNT_TABLE[n] for the n the loop body has just multiplied by 2
cauchy_ones_add(n, w, acc) ==
    cauchy_ones_loop(n, w + 1, acc + At(BIT_COUNT_TABLE, n))

cauchy_ones_loop(n, w, acc) ==
    IF w >= 8 THEN acc
    ELSE cauchy_ones_add(GF256Multiply(n, 2), w, acc)

cauchy_ones(n) == cauchy_ones_loop(n, 1, At(BIT_COUNT_TABLE, n))

\* GenerateCauchyOnes
CAUCHY_ONES == Array([x \in 0..255 |-> cauchy_ones(x)], 256)

-----------------------------------------------------------------------------
(* Helpers for loops over arrays *)

\* sum of f[i] for i = lo .. hi
RECURSIVE SumRange(_, _, _)
SumRange(f, lo, hi) ==
    IF lo > hi THEN 0
    ELSE IF lo = hi THEN f[lo]
    ELSE LET mid == (lo + hi) \div 2
         IN  SumRange(f, lo, mid) + SumRange(f, mid + 1, hi)

SetMin(S) == CHOOSE v \in S : \A w \in S : v <= w

\* the index an ascending scan of lo .. hi with "if (c[z] < smallest)" ends
\* with: the first index that holds the minimum
FirstMin(c, lo, hi) ==
    LET smallest == SetMin({At(c, z) : z \in lo..hi})
    IN  SetMin({z \in lo..hi : At(c, z) = smallest})

-----------------------------------------------------------------------------
(* SortMinWeightElements *)

SortMinWeightStep(S, x) ==
    LET best_x   == FirstMin(S.counts, x, 255)
        smallest == At(S.counts, best_x)
        temp     == At(S.elements, best_x)
    IN  [ counts   |-> Put(Put(S.counts, best_x, At(S.counts, x)), x, smallest),
          elements |-> Put(Put(S.elements, best_x, At(S.elements, x)), x, temp) ]

RECURSIVE SortMinWeightLoop(_, _, _)
SortMinWeightLoop(S, lo, hi) ==
    IF lo > hi THEN S
    ELSE IF lo = hi THEN SortMinWeightStep(S, lo)
    ELSE LET mid  == (lo + hi) \div 2
             left == SortMinWeightLoop(S, lo, mid)
         IN  IF Len(left.counts) > 0
             THEN SortMinWeightLoop(left, mid + 1, hi)
             ELSE left

SortMinWeightElements(elements) ==
    SortMinWeightLoop([counts |-> CAUCHY_ONES, elements |-> elements],
                      0, 255).elements

\* main(): MINWEIGHT_TABLE[ii] = ii, then sorted
MINWEIGHT_TABLE == SortMinWeightElements(Array([ii \in 0..255 |-> ii], 256))

-----------------------------------------------------------------------------
(* GenerateCauchyMatrix *)

\* first pass: row 0 is all ones, row y holds (Y[0] ^ X[x]) / (X[x] ^ Y[y])
RawCell(Xv, Yv, x, y) ==
    LET XC == At(Xv, x)
        YC == At(Yv, y)
        D  == Xor(At(Yv, 0), XC)
    IN  GF256Multiply(At(GF256_INV_TABLE, Xor(XC, YC)), D)

RawMatrix(kk, mm, Xv, Yv) ==
    Array([i \in 0..(kk * mm - 1) |->
             IF i < kk THEN 1 ELSE RawCell(Xv, Yv, i % kk, i \div kk)], kk * mm)

\* the row y of mat divided by its cell x
DividedRow(mat, kk, y, x) ==
    [z \in 0..(kk - 1) |-> GF256Divide(At(mat, y * kk + z), At(mat, y * kk + x))]

RowWeight(row, kk) ==
    SumRange([z \in 0..(kk - 1) |-> At(CAUCHY_ONES, row[z])], 0, kk - 1)

\* the index an ascending scan of w[0 .. n-1] with "if (w[z] < best)" ends
\* with, from best = 0x7fffffff and index 0
BestIndex(w, n) ==
    LET z0 == FirstMin(w, 0, n - 1)
    IN  IF At(w, z0) < INT_MAX THEN z0 ELSE 0

PivotCount(mat, kk, y, x) == RowWeight(DividedRow(mat, kk, y, x), kk)

\* BestPivot that keeps best_x = 0
BestPivot_First(mat, kk, y) == 0

\* best_x of row y: "if (count < best)" from best = 0x7fffffff, best_x = 0
BestPivot(mat, kk, y) ==
    BestIndex(Array([x \in 0..(kk - 1) |-> PivotCount(mat, kk, y, x)], kk), kk)

\* second pass: every row y >= 1 divided by its best pivot
RescaledMatrix(mat, kk, mm) ==
    Array([i \in 0..(kk * mm - 1) |->
             IF i < kk THEN At(mat, i)
             ELSE LET y == i \div kk
                  IN  GF256Divide(At(mat, i), At(mat, y * kk + BestPivot(mat, kk, y)))],
          kk * mm)

\* a zero divisor reaches GF256Divide, or GF256_INV_TABLE is read at 0
GenerateZeroDivisor(kk, mm, Xv, Yv, first) ==
    \E y \in 1..(mm - 1) : \E x \in 0..(kk - 1) :
        \/ Xor(At(Xv, x), At(Yv, y)) = 0
        \/ At(first, y * kk + x) = 0

\* the ones the function returns for the matrix it has written: row 0 counts
\* CAUCHY_ONES[1] * k, the other rows by their cells
MatrixOnes(kk, mm, second) ==
    At(CAUCHY_ONES, 1) * kk
    + SumRange([i \in kk..(kk * mm - 1) |-> At(CAUCHY_ONES, At(second, i))],
               kk, kk * mm - 1)

GenerateSecondPass(kk, mm, first, second, zd) ==
    [ raw |-> first, matrix |-> second,
      ones |-> MatrixOnes(kk, mm, second), zeroDiv |-> zd ]

GenerateFirstPass(kk, mm, Xv, Yv, first) ==
    GenerateSecondPass(kk, mm, first, RescaledMatrix(first, kk, mm),
                       GenerateZeroDivisor(kk, mm, Xv, Yv, first))

GenerateCauchyMatrix(kk, mm, Xv, Yv) ==
    GenerateFirstPass(kk, mm, Xv, Yv, RawMatrix(kk, mm, Xv, Yv))

-----------------------------------------------------------------------------
(* SortColumns *)

ColumnWeight(mat, kk, mm, x) ==
    SumRange([y \in 0..(mm - 1) |-> At(CAUCHY_ONES, At(mat, y * kk + x))], 0, mm - 1)

\* SortColumnsStep that writes counts[x] only
SortColumnsStep_CountsNotSwapped(S, kk, mm, x) ==
    LET best_x   == FirstMin(S.counts, x, kk - 1)
        smallest == At(S.counts, best_x)
    IN  [ counts |-> Put(S.counts, x, smallest),
          matrix |-> Array([i \in 0..(kk * mm - 1) |->
                        LET y == i \div kk
                            c == i % kk
                        IN  IF y >= 1 /\ c = x THEN At(S.matrix, y * kk + best_x)
                            ELSE IF y >= 1 /\ c = best_x THEN At(S.matrix, y * kk + x)
                            ELSE At(S.matrix, i)], kk * mm) ]

\* one iteration of the selection loop: counts are swapped over all of the
\* column, cells are swapped in rows 1 .. m-1 only
SortColumnsStep(S, kk, mm, x) ==
    LET best_x   == FirstMin(S.counts, x, kk - 1)
        smallest == At(S.counts, best_x)
    IN  [ counts |-> Put(Put(S.counts, best_x, At(S.counts, x)), x, smallest),
          matrix |-> Array([i \in 0..(kk * mm - 1) |->
                        LET y == i \div kk
                            c == i % kk
                        IN  IF y >= 1 /\ c = x THEN At(S.matrix, y * kk + best_x)
                            ELSE IF y >= 1 /\ c = best_x THEN At(S.matrix, y * kk + x)
                            ELSE At(S.matrix, i)], kk * mm) ]

RECURSIVE SortColumnsLoop(_, _, _, _)
SortColumnsLoop(S, kk, mm, x) ==
    IF x >= kk THEN S
    ELSE SortColumnsLoop(SortColumnsStep(S, kk, mm, x), kk, mm, x + 1)

SortColumns(kk, mm, mat) ==
    SortColumnsLoop([ counts |-> Array([x \in 0..(kk - 1) |->
                                          ColumnWeight(mat, kk, mm, x)], kk),
                      matrix |-> mat ], kk, mm, 0)

-----------------------------------------------------------------------------
(* SolveBestMatrix *)

\* RowCandidateG without A + F
RowCandidateG_NoSeedSum(a, Av, Fv) ==
    GF256Divide(GF256Multiply(a, Av), a)

\* G = (A + F + aA) / a
RowCandidateG(a, Av, Fv) ==
    GF256Divide(Xor(Xor(Av, Fv), GF256Multiply(a, Av)), a)

\* the scan started at ii = 0
RowScanIndices_FromZero == 0..255

\* for (int ii = 1; ii < 256; ++ii)
RowScanIndices == 1..255

\* the ii at which the scan of a row breaks, 0 when it ends without a break
RowScanBreak(hits) == IF hits = {} THEN 0 ELSE SetMin(hits)

\* hits: the ii whose G is not yet seen
RowScan(seenv, Av, Fv) ==
    RowScanBreak({ii \in RowScanIndices :
                    At(seenv, RowCandidateG(At(MINWEIGHT_TABLE, ii), Av, Fv)) = 0})

\* the divisors a the scan of a row passes to GF256Divide
RowScanDivisors(stop) ==
    {At(MINWEIGHT_TABLE, ii) : ii \in {j \in RowScanIndices : stop = 0 \/ j <= stop}}

\* ColCell multiplying instead of dividing
ColCell_Multiply(B, Fv, Yv, y) == GF256Multiply(Xor(B, Fv), Xor(At(Yv, y), B))

\* b = (B ^ F) / (Y[y] ^ B)
ColCell(B, Fv, Yv, y) == GF256Divide(Xor(B, Fv), Xor(At(Yv, y), B))

ColWeight(B, Fv, Yv, mm) ==
    SumRange([y \in 1..(mm - 1) |-> At(CAUCHY_ONES, ColCell(B, Fv, Yv, y))], 1, mm - 1)

\* best_B: "if (ones < best)" over the unseen B in ascending order, from
\* best = 0x7fffffff, best_B = 0
BestB(seenv, Fv, Yv, mm) ==
    BestIndex(Array([B \in 0..255 |->
                       IF At(seenv, B) # 0 THEN INT_MAX ELSE ColWeight(B, Fv, Yv, mm)],
                    256), 256)

-----------------------------------------------------------------------------
(* ShuffleDeck8 *)

\* size of the deck: 256 in the source
count == 8

\* a 32-bit word is kept as its four bytes, least significant first;
\* (u8)(rv >> (8 * n))
Byte(rv, n) == rv[n + 1]

\* ShuffleSlot with its two assignments in the other order
ShuffleSlot_Reordered(deck, ii, byte) ==
    LET jj == byte % ii
        d1 == Put(deck, jj, U8(ii))
    IN  Put(d1, ii, At(d1, jj))

\* jj = byte % ii; deck[ii] = deck[jj]; deck[jj] = ii;
ShuffleSlot(deck, ii, byte) ==
    LET jj == byte % ii
    IN  Put(Put(deck, ii, At(deck, jj)), jj, U8(ii))

\* one pass of the loop body with the word rv: the switch on count - ii
ShuffleWord(deck, ii, rv) ==
    LET left == count - ii
    IN  IF left > 3 THEN
            LET d1 == ShuffleSlot(deck, ii, Byte(rv, 0))
                d2 == ShuffleSlot(d1, ii + 1, Byte(rv, 1))
                d3 == ShuffleSlot(d2, ii + 2, Byte(rv, 2))
                d4 == ShuffleSlot(d3, ii + 3, Byte(rv, 3))
            IN  [deck |-> d4, ii |-> ii + 4, returned |-> FALSE]
        ELSE
            LET d1 == IF left = 3 THEN ShuffleSlot(deck, ii, Byte(rv, 0)) ELSE deck
                i1 == IF left = 3 THEN ii + 1 ELSE ii
                d2 == IF left >= 2 THEN ShuffleSlot(d1, i1, Byte(rv, 1)) ELSE d1
                i2 == IF left >= 2 THEN i1 + 1 ELSE i1
                d3 == IF left >= 1 THEN ShuffleSlot(d2, i2, Byte(rv, 2)) ELSE d2
            IN  [deck |-> d3, ii |-> i2, returned |-> TRUE]

\* the words that give the pass of the loop entered with ii every residue
\* byte % i of every slot i it fills (i < count <= 256); a pass that fills no
\* slot reads no byte
ResidueWords(ii) ==
    LET top == IF count - ii > 3 THEN ii + 3 ELSE count - 1
        R   == IF count - ii = 0 THEN {0} ELSE 0..(top - 1)
    IN  { <<b0, b1, b2, b3>> : b0 \in R, b1 \in R, b2 \in R, b3 \in R }

\* the decks ShuffleDeck8 can return from the loop entered with ii on decks
RECURSIVE ShuffleFrom(_, _)
ShuffleFrom(decks, ii) ==
    LET after == { ShuffleWord(d, ii, rv) : d \in decks, rv \in ResidueWords(ii) }
        rest  == { r.deck : r \in { q \in after : ~q.returned } }
        done  == { r.deck : r \in { q \in after : q.returned } }
    IN  IF rest = {} THEN done
        ELSE done \cup ShuffleFrom(rest, ii + 4)

\* content of a deck slot that was never written
Unwritten == -1

ShuffleOutcomes ==
    ShuffleFrom({Put(Array([i \in 0..(count - 1) |-> Unwritten], count), 0, 0)}, 1)

-----------------------------------------------------------------------------
(* Bounds of the model *)

MaxK == 2          \* columns of the matrices given to GenerateCauchyMatrix
MaxM == 3          \* rows of the matrices given to GenerateCauchyMatrix
MaxValue == 5      \* X and Y given to GenerateCauchyMatrix are drawn from 0 .. MaxValue
MaxSeed == 1       \* the seeds A, F of SolveBestMatrix are drawn from 0 .. MaxSeed
MaxSolveRows == 3  \* SolveBestMatrix(m) is run for m = 2 .. MaxSolveRows and m = 255
MaxIter == 3       \* iterations of the loop of Explore
MaxSortK == 3      \* columns of the matrices given to SortColumns
MaxCell == 3       \* cells of the matrices given to SortColumns are drawn from 0 .. MaxCell
MaxSortCells == 6  \* cells below row 0 of the matrices given to SortColumns

\* words prng.Next() returns in the model
RandomWords == { <<0, 0, 0, 0>>, <<0, 1, 2, 3>>, <<255, 255, 255, 255>> }

GenValues == 0..MaxValue

SolveRows == (2..MaxSolveRows) \cup {255}

-----------------------------------------------------------------------------
(* State *)

NoQuery == [kind |-> "none", a |-> 0, b |-> 0, r1 |-> 0, r2 |-> 0, r3 |-> 0]

Zeros(n) == Array([i \in 0..(n - 1) |-> 0], n)

\* the tables as main() has built them before it runs an experiment
TablesBuilt ==
    /\ polyIdx = FAVORITE_POLY
    /\ LogTable = GF256_LOG_TABLE
    /\ ALogTable = GF256_EXP_TABLE
    /\ query = NoQuery

NoMatrix ==
    /\ k = 0 /\ m = 0 /\ X = << >> /\ Y = << >>
    /\ matrix = << >> /\ raw = << >> /\ ones = 0 /\ zeroDiv = FALSE

NoSolve ==
    /\ seen = << >> /\ A = 0 /\ F = 0 /\ sy = 0 /\ sx = 0 /\ unassigned = FALSE

NoExplore ==
    /\ XY = << >> /\ sii = 0 /\ least = INT_MAX /\ best = << >>
    /\ iter = 0 /\ history = {}

NoSort == counts = << >> /\ matrix0 = << >>

tableVars   == <<polyIdx, LogTable, ALogTable, query>>
matrixVars  == <<k, m, X, Y, matrix, raw, ones, zeroDiv>>
solveVars   == <<seen, A, F, sy, sx, unassigned>>
exploreVars == <<XY, sii, least, best, iter, history>>
sortVars    == <<counts, matrix0>>

-----------------------------------------------------------------------------
(* Table construction and lookups *)

InitTables ==
    /\ pc = "start"
    /\ polyIdx = 0
    /\ LogTable = ZeroTables.LogTable
    /\ ALogTable = ZeroTables.ALogTable
    /\ query = NoQuery
    /\ NoMatrix /\ NoSolve /\ NoExplore /\ NoSort

\* GenerateExpLogTables(ii, GF256_LOG_TABLE, GF256_EXP_TABLE), over whatever
\* the tables hold
GenerateTables ==
    /\ pc \in {"start", "generated"}
    /\ \E ii \in 0..15 :
         LET T == GenerateExpLogTables(ii, [LogTable |-> LogTable, ALogTable |-> ALogTable])
         IN  /\ polyIdx' = ii
             /\ LogTable' = T.LogTable
             /\ ALogTable' = T.ALogTable
    /\ pc' = "generated"
    /\ UNCHANGED <<query, matrixVars, solveVars, exploreVars, sortVars>>

\* InitMulDivTables, InitInvTable, GenerateCauchyOnes and SortMinWeightElements
\* of main(): their tables are GF256_MUL_TABLE, GF256_DIV_TABLE,
\* GF256_INV_TABLE, CAUCHY_ONES and MINWEIGHT_TABLE
InitMain ==
    /\ pc = "generated"
    /\ polyIdx = FAVORITE_POLY
    /\ LogTable = GF256_LOG_TABLE
    /\ ALogTable = GF256_EXP_TABLE
    /\ pc' = "main"
    /\ UNCHANGED <<tableVars, matrixVars, solveVars, exploreVars, sortVars>>

\* GF256Multiply(a, b), GF256Multiply(b, a) and GF256Divide(a * b, b)
Lookup ==
    /\ pc = "main"
    /\ \E a \in 0..255, b \in 0..255 :
         query' = [ kind |-> "muldiv", a |-> a, b |-> b,
                    r1 |-> GF256Multiply(a, b),
                    r2 |-> GF256Multiply(b, a),
                    r3 |-> GF256Divide(GF256Multiply(a, b), b) ]
    /\ pc' = "looked_up"
    /\ UNCHANGED <<polyIdx, LogTable, ALogTable, matrixVars, solveVars,
                   exploreVars, sortVars>>

NextTables == GenerateTables \/ InitMain \/ Lookup

SpecTables == InitTables /\ [][NextTables]_vars

-----------------------------------------------------------------------------
(* GenerateCauchyMatrix on given vectors, and SolveBestMatrix *)

Injective(v, n) == \A i \in 1..n : \A j \in 1..n : i # j => v[i] # v[j]

\* duplicate-free X and Y without a common element
InitGenerate ==
    /\ pc = "generate"
    /\ TablesBuilt
    /\ k \in 1..MaxK
    /\ m \in 1..MaxM
    /\ \E v \in [1..(k + m) -> GenValues] :
         /\ Injective(v, k + m)
         /\ X = SubSeq(v, 1, k)
         /\ Y = SubSeq(v, k + 1, k + m)
    /\ matrix = Zeros(k * m)
    /\ raw = Zeros(k * m)
    /\ ones = 0
    /\ zeroDiv = FALSE
    /\ NoSolve /\ NoExplore /\ NoSort

\* what a call that computed g leaves in matrix and returns
Generated(g) ==
    /\ matrix' = g.matrix
    /\ raw' = g.raw
    /\ ones' = g.ones
    /\ zeroDiv' = (zeroDiv \/ g.zeroDiv)

Generate ==
    /\ pc = "generate"
    /\ Generated(GenerateCauchyMatrix(k, m, X, Y))
    /\ pc' = "generated_matrix"
    /\ UNCHANGED <<tableVars, k, m, X, Y, solveVars, exploreVars, sortVars>>

\* SolveBestMatrix(m) with the seed A, F of the loops that are commented out
InitSolve ==
    /\ pc = "solve"
    /\ TablesBuilt
    /\ m \in SolveRows
    /\ A \in 0..MaxSeed
    /\ F \in 0..MaxSeed
    /\ A # F
    /\ k = 0 /\ X = Zeros(256) /\ Y = Zeros(256)
    /\ matrix = << >> /\ raw = << >> /\ ones = 0 /\ zeroDiv = FALSE
    /\ seen = Zeros(256) /\ sy = 0 /\ sx = 0 /\ unassigned = FALSE
    /\ NoExplore /\ NoSort

\* lines 259 - 286: first row, seen, X[0], Y[0]
SolveSeed ==
    /\ pc = "solve"
    /\ k' = 256 - m
    /\ matrix' = Array([i \in 0..((256 - m) * m - 1) |->
                          IF i < 256 - m THEN 1 ELSE 0], (256 - m) * m)
    /\ seen' = Put(Put(Zeros(256), A, 1), F, 1)
    /\ X' = Put(X, 0, A)
    /\ Y' = Put(Y, 0, F)
    /\ sy' = 1
    /\ pc' = "solve_rows"
    /\ UNCHANGED <<tableVars, m, raw, ones, zeroDiv, A, F, sx, unassigned,
                   exploreVars, sortVars>>

AfterRows(y) ==
    IF y < m THEN "solve_rows" ELSE IF 1 < k THEN "solve_columns" ELSE "solved"

\* one iteration of the loop over y of lines 295 - 315
\* lines 307 - 314 after a scan that ended at ii with a and G
SolveRowAssign(ii, a, G) ==
    IF ii # 0
    THEN /\ seen' = Put(seen, G, 1)
         /\ Y' = Put(Y, sy, G)
         /\ matrix' = Put(matrix, sy * k, a)
         /\ unassigned' = unassigned
    ELSE \* Y[y] and matrix[y * k] keep what the memory held
         /\ \E g \in 0..255 : Y' = Put(Y, sy, g)
         /\ \E c \in 0..255 : matrix' = Put(matrix, sy * k, c)
         /\ seen' = seen
         /\ unassigned' = TRUE

SolveRowCandidate(ii, a) == SolveRowAssign(ii, a, RowCandidateG(a, A, F))

SolveRowScanned(ii) ==
    /\ SolveRowCandidate(ii, At(MINWEIGHT_TABLE, ii))
    /\ zeroDiv' = (zeroDiv \/ 0 \in RowScanDivisors(ii))

SolveRow ==
    /\ pc = "solve_rows"
    /\ sy < m
    /\ SolveRowScanned(RowScan(seen, A, F))
    /\ sy' = sy + 1
    /\ sx' = 1
    /\ pc' = AfterRows(sy + 1)
    /\ UNCHANGED <<tableVars, k, m, X, raw, ones, A, F, exploreVars, sortVars>>

\* lines 340 - 348 with best_B = B; the divisors are those of every unseen
\* candidate of the scan
SolveColumnAssign(B) ==
    /\ X' = Put(X, sx, B)
    /\ seen' = Put(seen, B, 1)
    /\ matrix' = [i \in 1..(k * m) |->
                    IF (i - 1) % k = sx /\ (i - 1) \div k >= 1
                    THEN ColCell(B, F, Y, (i - 1) \div k)
                    ELSE matrix[i]] \o << >>
    /\ zeroDiv' = (zeroDiv \/ \E y \in 1..(m - 1) :
                       \/ Xor(At(Y, y), B) = 0
                       \/ \E C \in 0..255 :
                             At(seen, C) = 0 /\ Xor(At(Y, y), C) = 0)

\* one iteration of the loop over x of lines 321 - 349
SolveColumn ==
    /\ pc = "solve_columns"
    /\ sx < k
    /\ SolveColumnAssign(BestB(seen, F, Y, m))
    /\ sx' = sx + 1
    /\ pc' = IF sx + 1 < k THEN "solve_columns" ELSE "solved"
    /\ UNCHANGED <<tableVars, k, m, Y, raw, ones, A, F, sy, unassigned,
                   exploreVars, sortVars>>

InitBuild == InitGenerate \/ InitSolve

NextBuild == Generate \/ SolveSeed \/ SolveRow \/ SolveColumn

SpecBuild == InitBuild /\ [][NextBuild]_vars

-----------------------------------------------------------------------------
(* Explore *)

\* Better with the comparison reversed
Better_Reversed(o, l) == o > l

\* if (ones < least)
Better(o, l) == o < l

\* Explore(k, m) before its loop; matrix, best and XY are not initialised and
\* are written before they are read
InitExplore ==
    /\ pc = "explore_loop"
    /\ TablesBuilt
    /\ k \in 1..MaxK
    /\ m \in 1..MaxM
    /\ k + m <= count
    /\ X = << >> /\ Y = << >>
    /\ matrix = Zeros(k * m)
    /\ raw = Zeros(k * m)
    /\ ones = 0
    /\ zeroDiv = FALSE
    /\ XY = Array([i \in 0..(count - 1) |-> Unwritten], count)
    /\ sii = 0
    /\ least = INT_MAX
    /\ best = Zeros(k * m)
    /\ iter = 0
    /\ history = {}
    /\ NoSolve /\ NoSort

\* ShuffleDeck8 up to its loop
ShuffleBegin ==
    /\ pc = "explore_loop"
    /\ iter < MaxIter
    /\ XY' = Put(XY, 0, 0)
    /\ sii' = 1
    /\ pc' = "shuffle"
    /\ UNCHANGED <<tableVars, matrixVars, solveVars, least, best, iter, history,
                   sortVars>>

\* one pass of the loop of ShuffleDeck8: rv = prng.Next() and the switch
ShuffleNext ==
    /\ pc = "shuffle"
    /\ \E rv \in RandomWords :
         LET r == ShuffleWord(XY, sii, rv)
         IN  /\ XY' = r.deck
             /\ sii' = r.ii
             /\ pc' = IF r.returned THEN "shuffled" ELSE "shuffle"
    /\ UNCHANGED <<tableVars, matrixVars, solveVars, least, best, iter, history,
                   sortVars>>

\* lines 541 - 547 after a call that computed g
ExploreCompare(g) ==
    /\ Generated(g)
    /\ least' = IF Better(g.ones, least) THEN g.ones ELSE least
    /\ best' = IF Better(g.ones, least) THEN g.matrix ELSE best
    /\ history' = history \cup {[ones |-> g.ones, matrix |-> g.matrix]}

\* the rest of the loop body: GenerateCauchyMatrix(k, m, matrix, X, Y) with
\* X = XY and Y = XY + k, and the comparison with least
ExploreGenerate ==
    /\ pc = "shuffled"
    /\ X' = SubSeq(XY, 1, k)
    /\ Y' = SubSeq(XY, k + 1, k + m)
    /\ ExploreCompare(GenerateCauchyMatrix(k, m, SubSeq(XY, 1, k),
                                           SubSeq(XY, k + 1, k + m)))
    /\ iter' = iter + 1
    /\ pc' = "explore_loop"
    /\ UNCHANGED <<tableVars, k, m, solveVars, XY, sii, sortVars>>

\* what SortColumns leaves in best
ExploreSorted(s) ==
    /\ best' = s.matrix
    /\ counts' = s.counts

\* SortColumns(k, m, best) after the loop
ExploreSort ==
    /\ pc = "explore_loop"
    /\ iter = MaxIter
    /\ ExploreSorted(SortColumns(k, m, best))
    /\ matrix0' = best
    /\ pc' = "explore_sorted"
    /\ UNCHANGED <<tableVars, matrixVars, solveVars, XY, sii, least, iter, history>>

NextExplore == ShuffleBegin \/ ShuffleNext \/ ExploreGenerate \/ ExploreSort

SpecExplore == InitExplore /\ [][NextExplore]_vars

-----------------------------------------------------------------------------
(* SortColumns on given matrices *)

\* k x m matrices whose row 0 is all ones
InitSort ==
    /\ pc = "sort"
    /\ TablesBuilt
    /\ k \in 1..MaxSortK
    /\ m \in 1..MaxM
    /\ k * (m - 1) <= MaxSortCells
    /\ \E c \in [1..(k * (m - 1)) -> 0..MaxCell] :
         matrix = [i \in 1..k |-> 1] \o c
    /\ matrix0 = matrix
    /\ counts = Zeros(k)
    /\ X = << >> /\ Y = << >> /\ raw = << >> /\ ones = 0 /\ zeroDiv = FALSE
    /\ NoSolve /\ NoExplore

\* what SortColumns leaves in matrix
Sorted(s) ==
    /\ matrix' = s.matrix
    /\ counts' = s.counts

Sort ==
    /\ pc = "sort"
    /\ Sorted(SortColumns(k, m, matrix))
    /\ pc' = "sorted"
    /\ UNCHANGED <<tableVars, k, m, X, Y, raw, ones, zeroDiv, solveVars,
                   exploreVars, matrix0>>

NextSort == Sort

SpecSort == InitSort /\ [][NextSort]_vars

-----------------------------------------------------------------------------
(* Properties *)

MatrixRowWeight(mat, kk, y) ==
    SumRange([z \in 0..(kk - 1) |-> At(CAUCHY_ONES, At(mat, y * kk + z))], 0, kk - 1)

IsPermutation(deck) ==
    /\ Len(deck) = count
    /\ {At(deck, i) : i \in 0..(count - 1)} = 0..(count - 1)

\* C1: with the tables of FAVORITE_POLY, for all bytes a and b:
\* a * b = b * a, a * 1 = a, a * 0 = 0, and (a * b) / b = a when b # 0.
C1_FieldLaws ==
    query.kind = "muldiv" =>
        /\ query.r1 = query.r2
        /\ (query.b = 1 => query.r1 = query.a)
        /\ (query.b = 0 => query.r1 = 0)
        /\ (query.b # 0 => query.r3 = query.a)

C1_Witness ==
    /\ query.kind = "muldiv"
    /\ query.a > 1 /\ query.b > 1
    /\ query.r1 > 255 - 1

C3_NoHeavierThanRaw ==
    pc = "generated_matrix" =>
        \A y \in 1..(m - 1) :
            MatrixRowWeight(matrix, k, y) <= MatrixRowWeight(raw, k, y)

\* C3 (amended): every row y >= 1 that GenerateCauchyMatrix leaves weighs no
\* more than the raw row divided by any one of its own cells, and holds a 1;
\* it can weigh more than the raw row itself.
C3_NoHeavierThanAnyPivot ==
    pc = "generated_matrix" =>
        \A y \in 1..(m - 1) :
            /\ \A x \in 0..(k - 1) :
                  MatrixRowWeight(matrix, k, y) <= PivotCount(raw, k, y, x)
            /\ \E x \in 0..(k - 1) : At(matrix, y * k + x) = 1

C3_Witness ==
    /\ pc = "generated_matrix"
    /\ k = 2 /\ m = 2
    /\ MatrixRowWeight(matrix, k, 1) > MatrixRowWeight(raw, k, 1)

\* C4: every permutation of the deck values, the identity included, is a deck
\* ShuffleDeck8 can return.
C4_EveryPermutation ==
    pc = "shuffled" =>
        \A p \in Permutations(0..(count - 1)) : Array(p, count) \in ShuffleOutcomes

\* every deck ShuffleDeck8 can return holds every value exactly once
OutcomesArePermutations == \A d \in ShuffleOutcomes : IsPermutation(d)

\* C5: whatever words the generator returns, ShuffleDeck8 returns a deck that
\* holds every value exactly once, all slots written; so X = deck[0 .. k-1] and
\* Y = deck[k .. k+m-1] are duplicate-free and share no element.
C5_DeckIsPermutation ==
    /\ OutcomesArePermutations
    /\ pc = "shuffled" =>
          /\ IsPermutation(XY)
          /\ Injective(SubSeq(XY, 1, k + m), k + m)
    /\ pc = "explore_loop" /\ iter > 0 =>
          /\ Injective(X \o Y, k + m)
          /\ Len(X) = k /\ Len(Y) = m

C5_Witness ==
    /\ pc = "explore_loop"
    /\ iter = 2
    /\ k + m > 3
    /\ At(XY, 0) # 0

\* C6: no zero divisor reaches GF256Divide and GF256_INV_TABLE is never read at
\* 0, in GenerateCauchyMatrix on duplicate-free disjoint X, Y and in both
\* phases of SolveBestMatrix; every raw and every rescaled cell is nonzero.
C6_NoZeroDivisor ==
    /\ ~zeroDiv
    /\ pc = "generated_matrix" =>
          \A i \in 1..(k * m) : raw[i] # 0 /\ matrix[i] # 0

C6_Witness ==
    \/ pc = "generated_matrix" /\ k = 2 /\ m = 3 /\ ~zeroDiv
    \/ pc = "solved" /\ m = 2 /\ ~zeroDiv

\* C7: least never increases and is never negative; after every completed
\* iteration it is the minimum of the scores returned so far and best is the
\* matrix of an iteration that returned it.
C7_LeastIsMinimum ==
    /\ [](least >= 0)
    /\ [](pc \in {"explore_loop", "shuffle", "shuffled"} /\ iter >= 1 =>
             /\ \A h \in history : least <= h.ones
             /\ [ones |-> least, matrix |-> best] \in history)
    /\ [][least' <= least]_vars

C7_Witness ==
    /\ pc = "explore_loop"
    /\ iter >= 2
    /\ \E h \in history : h.ones > least
    /\ best # matrix

\* C8: after SortColumns on a matrix whose row 0 is all ones, the column
\* weights are non-decreasing from column 0 to column k-1 and the columns are
\* a rearrangement of the columns of the input.
C8_SortedColumns ==
    pc = "sorted" =>
        /\ \A x \in 0..(k - 2) :
              ColumnWeight(matrix, k, m, x) <= ColumnWeight(matrix, k, m, x + 1)
        /\ \E p \in Permutations(0..(k - 1)) :
              \A x \in 0..(k - 1) : \A y \in 0..(m - 1) :
                  At(matrix, y * k + x) = At(matrix0, y * k + p[x])

C8_Witness ==
    /\ pc = "sorted"
    /\ k = 3 /\ m = 3
    /\ matrix # matrix0
    /\ ColumnWeight(matrix0, k, m, 2) < ColumnWeight(matrix0, k, m, 1)
    /\ ColumnWeight(matrix0, k, m, 1) < ColumnWeight(matrix0, k, m, 0)

\* C9: in the row phase of SolveBestMatrix, for every seed A # F and every m in
\* 2 .. 255, the scan of each row finds a candidate whose G is unseen: every
\* row is assigned and no scan ends without a break.
C9_RowScanSucceeds ==
    /\ ~unassigned
    /\ pc = "solve_rows" => RowScan(seen, A, F) # 0

C9_Witness ==
    /\ pc = "solved"
    /\ m = 255
    /\ ~unassigned
    /\ sy = 255

\* C10: when SolveBestMatrix has finished both phases, X[0 .. k-1] and
\* Y[0 .. m-1] hold k + m distinct values, row 0 is all ones, and
\* matrix[y][x] = (X[x] ^ Y[0]) / (X[x] ^ Y[y]) for y >= 1, column 0 included.
C10_SolvedIsCauchy ==
    pc = "solved" =>
        /\ Injective(SubSeq(X, 1, k) \o SubSeq(Y, 1, m), k + m)
        /\ \A x \in 0..(k - 1) : At(matrix, x) = 1
        /\ \A y \in 1..(m - 1) : \A x \in 0..(k - 1) :
              At(matrix, y * k + x) =
                  GF256Divide(Xor(At(X, x), At(Y, 0)), Xor(At(X, x), At(Y, y)))

C10_Witness ==
    /\ pc = "solved"
    /\ m = 3
    /\ k = 253
    /\ At(matrix, 2 * k + 252) # 0

-----------------------------------------------------------------------------
====
